---- MODULE Spec2Model ----
(***************************************************************************)
(* The LVI heater climate entity (climate.py): entry setup, the entity's   *)
(* read-only properties over the heater snapshot it holds, and its command *)
(* handlers, which call the vendor client.                                 *)
(*                                                                         *)
(* Python values are written as follows.  An optional value is a set of at *)
(* most one element: None is {} and a present value v is {v}.  A float     *)
(* temperature is an integer number of tenths of a degree.  Keyword        *)
(* arguments are a set of <<name, value>> pairs.  A property read yields   *)
(* [ok |-> TRUE, val |-> v] or [ok |-> FALSE, err |-> exception name].     *)
(***************************************************************************)
EXTENDS Integers, Sequences, FiniteSets, TLC

VARIABLES pc, connectResult, connectCalls, findCalls, entities,
          serviceRegistered, lastOp, issued, outcome

vars == <<pc, connectResult, connectCalls, findCalls, entities,
          serviceRegistered, lastOp, issued, outcome>>

(* ------------------------------ bounds -------------------------------- *)

\* Fan speeds a snapshot may report: -1 .. MaxFanSpeed.
MaxFanSpeed == 1

(* ----------------------------- constants ------------------------------ *)

MAX_TEMP == 30
MIN_TEMP == 5

FAN_ON == "on"
HVAC_MODE_HEAT == "heat"
HVAC_MODE_OFF == "off"
CURRENT_HVAC_HEAT == "heating"
CURRENT_HVAC_IDLE == "idle"
ATTR_TEMPERATURE == "temperature"
ATTR_ROOM_NAME == "room_name"
ATTR_SLEEP_TEMP == "sleep_temp"
ATTR_COMFORT_TEMP == "comfort_temp"
ATTR_AWAY_TEMP == "away_temp"
DOMAIN_NAME == "lvi"
MANUFACTURER == "Lvi"

None == {}
Some(v) == {v}
Value(o) == CHOOSE v \in o : TRUE

Ok(v) == [ok |-> TRUE, val |-> v]
Raise(e) == [ok |-> FALSE, err |-> e]

(* ------------------------ the vendor's heaters ------------------------ *)

DeviceIds == {"d1", "d2"}

\* The accounts explored: no heater, or one heater under either id.
DiscoverySets == {{}, {"d1"}, {"d2"}}

nom_appareil_of(id) == IF id = "d1" THEN "Heater1" ELSE "Heater2"

Rooms == {None, Some([name |-> "Kitchen"])}

\* '0' comfort, '8' manual, '3' eco, '4' boost; '1' stands for every other
\* code and None for a missing one.
GvModes == {Some("0"), Some("8"), Some("3"), Some("4"), Some("1"), None}

\* The five setpoints of a device are told apart by their values; the two
\* devices carry different ones.
Consignes(id) ==
    IF id = "d1"
    THEN {[confort |-> 21, manuel |-> 19, eco |-> 17, boost |-> 25, hg |-> 7]}
    ELSE {[confort |-> 19, manuel |-> 22, eco |-> 8, boost |-> 17, hg |-> 26]}

FanSpeeds == (-1) .. MaxFanSpeed

CurrentTemps == {20}

\* The heater objects the vendor client may hand out, by device id.
Heaters ==
  [ id \in DeviceIds |->
    { [ id_device        |-> id,
        nom_appareil     |-> nom_appareil_of(id),
        room             |-> r,
        gv_mode          |-> g,
        consigne_confort |-> c.confort,
        consigne_manuel  |-> c.manuel,
        consigne_eco     |-> c.eco,
        consigne_boost   |-> c.boost,
        consigne_hg      |-> c.hg,
        current_temp     |-> t,
        fan_speed        |-> f,
        is_gen1          |-> g1,
        is_heating       |-> ih,
        power_status     |-> p ] :
      r \in Rooms, g \in GvModes, c \in Consignes(id), t \in CurrentTemps,
      f \in FanSpeeds, g1 \in BOOLEAN, ih \in {0, 1}, p \in {0, 1} } ]

HeaterSnapshots(id) == Heaters[id]

(* ----------------------- read-only properties ------------------------- *)

unique_id(h) == h.id_device

name(h) ==
    IF h.room = None
    THEN Raise("AttributeError")
    ELSE Ok(h.nom_appareil \o "-" \o Value(h.room).name)

\* extra_state_attributes reading room.name without the fallback literal.
extra_state_attributes_nofallback(h) ==
    [room |-> IF h.room # None THEN Value(h.room).name ELSE ""]

extra_state_attributes(h) ==
    [room |-> IF h.room # None THEN Value(h.room).name
              ELSE "Independent device"]

\* target_temperature with the eco and boost branches exchanged.
target_temperature_swapped(h) ==
    IF h.gv_mode = Some("0") THEN h.consigne_confort
    ELSE IF h.gv_mode = Some("8") THEN h.consigne_manuel
    ELSE IF h.gv_mode = Some("3") THEN h.consigne_boost
    ELSE IF h.gv_mode = Some("4") THEN h.consigne_eco
    ELSE h.consigne_hg

target_temperature(h) ==
    IF h.gv_mode = Some("0") THEN h.consigne_confort
    ELSE IF h.gv_mode = Some("8") THEN h.consigne_manuel
    ELSE IF h.gv_mode = Some("3") THEN h.consigne_eco
    ELSE IF h.gv_mode = Some("4") THEN h.consigne_boost
    ELSE h.consigne_hg

current_temperature(h) == h.current_temp

\* fan_mode taking only a positive speed for "on".
fan_mode_positive(h) == IF h.fan_speed > 0 THEN FAN_ON ELSE HVAC_MODE_OFF

fan_mode(h) == IF h.fan_speed # 0 THEN FAN_ON ELSE HVAC_MODE_OFF

fan_modes == <<FAN_ON, HVAC_MODE_OFF>>

min_temp == MIN_TEMP

max_temp == MAX_TEMP

\* hvac_action without the generation-1 override.
hvac_action_nogen1(h) ==
    IF h.is_heating = 1 THEN CURRENT_HVAC_HEAT ELSE CURRENT_HVAC_IDLE

hvac_action(h) ==
    IF h.is_gen1 \/ h.is_heating = 1 THEN CURRENT_HVAC_HEAT
    ELSE CURRENT_HVAC_IDLE

\* hvac_mode keyed off the heating-active signal instead of power_status.
hvac_mode_by_heating(h) ==
    IF h.is_heating = 1 THEN HVAC_MODE_HEAT ELSE HVAC_MODE_OFF

hvac_mode(h) == IF h.power_status = 1 THEN HVAC_MODE_HEAT ELSE HVAC_MODE_OFF

hvac_modes == <<HVAC_MODE_HEAT, HVAC_MODE_OFF>>

\* The attributes class LviHeater defines; self.<a> for any other name
\* raises AttributeError.
LviHeaterAttrs ==
    { "_heater", "_conn", "supported_features", "available", "unique_id",
      "name", "extra_state_attributes", "temperature_unit",
      "target_temperature", "target_temperature_step",
      "current_temperature", "fan_mode", "fan_modes", "min_temp",
      "max_temp", "hvac_action", "hvac_mode", "hvac_modes", "device_id",
      "device_info" }

\* The dict display evaluates "identifiers" (self.id_device) first, then
\* "name" (self.name).
device_info(h) ==
    IF "id_device" \notin LviHeaterAttrs THEN Raise("AttributeError")
    ELSE IF ~name(h).ok THEN name(h)
    ELSE Ok([identifiers  |-> {<<DOMAIN_NAME, h.id_device>>},
             name         |-> name(h).val,
             manufacturer |-> MANUFACTURER,
             model        |-> "generation 2"])

Properties ==
    { "unique_id", "name", "extra_state_attributes", "device_info",
      "target_temperature", "current_temperature", "hvac_mode",
      "hvac_action", "fan_mode" }

getattr(h, attr) ==
    CASE attr = "unique_id" -> Ok(unique_id(h))
      [] attr = "name" -> name(h)
      [] attr = "extra_state_attributes" -> Ok(extra_state_attributes(h))
      [] attr = "device_info" -> device_info(h)
      [] attr = "target_temperature" -> Ok(target_temperature(h))
      [] attr = "current_temperature" -> Ok(current_temperature(h))
      [] attr = "hvac_mode" -> Ok(hvac_mode(h))
      [] attr = "hvac_action" -> Ok(hvac_action(h))
      [] attr = "fan_mode" -> Ok(fan_mode(h))

(* ------------------------------ inputs -------------------------------- *)

\* Requested temperatures in tenths of a degree: 20.5, 21.0, -1.5.
Temperatures == {205, 210, -15}
TemperatureKwargs == {{}} \cup {{<<ATTR_TEMPERATURE, t>>} : t \in Temperatures}
RequestedFanModes == {"on", "off", "auto"}
RequestedHvacModes == {"heat", "off", "cool"}
ServiceData ==
    { {<<ATTR_ROOM_NAME, "Kitchen">>},
      {<<ATTR_ROOM_NAME, "Kitchen">>, <<ATTR_SLEEP_TEMP, 18>>,
       <<ATTR_COMFORT_TEMP, 21>>, <<ATTR_AWAY_TEMP, 12>>} }

HasKey(kw, k) == \E p \in kw : p[1] = k
Get(kw, k) == (CHOOSE p \in kw : p[1] = k)[2]

\* int(x) on a float: rounds towards zero.
int(t) == IF t >= 0 THEN t \div 10 ELSE -((-t) \div 10)

\* A call on the vendor client.
Call(fn, target, kw) == [fn |-> fn, target |-> target, kwargs |-> kw]

Op(op, e, kw) == [op |-> op, entity |-> e, kwargs |-> kw]

(* ------------------------------- state -------------------------------- *)

Init ==
    /\ pc = "start"
    /\ connectResult = "none"
    /\ connectCalls = 0
    /\ findCalls = 0
    /\ entities = [e \in {} |-> {}]
    /\ serviceRegistered = FALSE
    /\ lastOp = Op("none", "", {})
    /\ issued = <<>>
    /\ outcome = "none"

\* async_setup_entry ignoring a failed connect(): no raise, setup goes on.
async_setup_entry_unchecked ==
    /\ pc = "start"
    /\ connectCalls' = connectCalls + 1
    /\ connectResult' = "failed"
    /\ findCalls' = findCalls + 1
    /\ entities' = [e \in {} |-> {}]
    /\ serviceRegistered' = TRUE
    /\ pc' = "ready"
    /\ outcome' = "returned"
    /\ lastOp' = Op("async_setup_entry", "", {})
    /\ UNCHANGED issued

\* async_setup_entry, connect() failing: raise ConfigEntryNotReady.  One
\* invocation of setup is followed; a later retry is the host's own call.
async_setup_entry_failed ==
    /\ pc = "start"
    /\ connectCalls' = connectCalls + 1
    /\ connectResult' = "failed"
    /\ pc' = "not_ready"
    /\ outcome' = "ConfigEntryNotReady"
    /\ lastOp' = Op("async_setup_entry", "", {})
    /\ UNCHANGED <<findCalls, entities, serviceRegistered, issued>>

\* async_setup_entry, connect() succeeding: discover, add one entity per
\* heater, register the room-temperature service.
async_setup_entry_ok ==
    /\ pc = "start"
    /\ connectCalls' = connectCalls + 1
    /\ connectResult' = "ok"
    /\ findCalls' = findCalls + 1
    /\ \E ids \in DiscoverySets :
         \E heaters \in [ids -> UNION {HeaterSnapshots(i) : i \in ids}] :
            /\ \A i \in ids : heaters[i].id_device = i
            /\ entities' = heaters
    /\ serviceRegistered' = TRUE
    /\ pc' = "ready"
    /\ outcome' = "returned"
    /\ lastOp' = Op("async_setup_entry", "", {})
    /\ UNCHANGED issued

async_setup_entry == async_setup_entry_failed \/ async_setup_entry_ok

\* The service handler set_room_temp registered by async_setup_entry.
set_room_temp(data) ==
    /\ serviceRegistered
    /\ issued' = << Call("set_room_temperatures_by_name",
                         Get(data, ATTR_ROOM_NAME),
                         {p \in data : p[1] # ATTR_ROOM_NAME}) >>
    /\ outcome' = "returned"
    /\ lastOp' = Op("set_room_temp", "", data)
    /\ UNCHANGED <<pc, connectResult, connectCalls, findCalls, entities,
                   serviceRegistered>>

\* The host reads one property of entity e.
read_property(e, attr) ==
    /\ e \in DOMAIN entities
    /\ outcome' = IF getattr(entities[e], attr).ok THEN "returned"
                  ELSE getattr(entities[e], attr).err
    /\ issued' = <<>>
    /\ lastOp' = Op("read", e, {<<"attr", attr>>})
    /\ UNCHANGED <<pc, connectResult, connectCalls, findCalls, entities,
                   serviceRegistered>>

\* async_set_temperature rounding to the nearest degree, int(round(t)).
async_set_temperature_round(e, kwargs) ==
    /\ e \in DOMAIN entities
    /\ issued' = IF ~HasKey(kwargs, ATTR_TEMPERATURE) THEN <<>>
                 ELSE << Call("set_heater_temp", entities[e].id_device,
                              {<<"temperature",
                                 (Get(kwargs, ATTR_TEMPERATURE) + 5) \div 10>>}) >>
    /\ outcome' = "returned"
    /\ lastOp' = Op("async_set_temperature", e, kwargs)
    /\ UNCHANGED <<pc, connectResult, connectCalls, findCalls, entities,
                   serviceRegistered>>

async_set_temperature(e, kwargs) ==
    /\ e \in DOMAIN entities
    /\ issued' = IF ~HasKey(kwargs, ATTR_TEMPERATURE) THEN <<>>
                 ELSE << Call("set_heater_temp", entities[e].id_device,
                              {<<"temperature",
                                 int(Get(kwargs, ATTR_TEMPERATURE))>>}) >>
    /\ outcome' = "returned"
    /\ lastOp' = Op("async_set_temperature", e, kwargs)
    /\ UNCHANGED <<pc, connectResult, connectCalls, findCalls, entities,
                   serviceRegistered>>

\* async_set_fan_mode also writing the new fan state into the held heater.
async_set_fan_mode_optimistic(e, mode) ==
    /\ e \in DOMAIN entities
    /\ LET fan_status == IF mode = FAN_ON THEN 1 ELSE 0
       IN  /\ issued' = << Call("heater_control", entities[e].id_device,
                                {<<"fan_status", fan_status>>}) >>
           /\ entities' = [entities EXCEPT ![e].fan_speed = fan_status]
    /\ outcome' = "returned"
    /\ lastOp' = Op("async_set_fan_mode", e, {<<"fan_mode", mode>>})
    /\ UNCHANGED <<pc, connectResult, connectCalls, findCalls,
                   serviceRegistered>>

async_set_fan_mode(e, mode) ==
    /\ e \in DOMAIN entities
    /\ LET fan_status == IF mode = FAN_ON THEN 1 ELSE 0
       IN  issued' = << Call("heater_control", entities[e].id_device,
                             {<<"fan_status", fan_status>>}) >>
    /\ outcome' = "returned"
    /\ lastOp' = Op("async_set_fan_mode", e, {<<"fan_mode", mode>>})
    /\ UNCHANGED <<pc, connectResult, connectCalls, findCalls, entities,
                   serviceRegistered>>

\* async_set_hvac_mode with a plain else: every other mode powers off.
async_set_hvac_mode_else(e, mode) ==
    /\ e \in DOMAIN entities
    /\ issued' = IF mode = HVAC_MODE_HEAT
                 THEN << Call("heater_control", entities[e].id_device,
                              {<<"power_status", 1>>}) >>
                 ELSE << Call("heater_control", entities[e].id_device,
                              {<<"power_status", 0>>}) >>
    /\ outcome' = "returned"
    /\ lastOp' = Op("async_set_hvac_mode", e, {<<"hvac_mode", mode>>})
    /\ UNCHANGED <<pc, connectResult, connectCalls, findCalls, entities,
                   serviceRegistered>>

async_set_hvac_mode(e, mode) ==
    /\ e \in DOMAIN entities
    /\ issued' = IF mode = HVAC_MODE_HEAT
                 THEN << Call("heater_control", entities[e].id_device,
                              {<<"power_status", 1>>}) >>
                 ELSE IF mode = HVAC_MODE_OFF
                 THEN << Call("heater_control", entities[e].id_device,
                              {<<"power_status", 0>>}) >>
                 ELSE <<>>
    /\ outcome' = "returned"
    /\ lastOp' = Op("async_set_hvac_mode", e, {<<"hvac_mode", mode>>})
    /\ UNCHANGED <<pc, connectResult, connectCalls, findCalls, entities,
                   serviceRegistered>>

\* update_device(id) of the vendor client: the current heater object of id.
update_device(id) == HeaterSnapshots(id)

async_update(e) ==
    /\ e \in DOMAIN entities
    /\ \E h \in update_device(entities[e].id_device) :
          entities' = [entities EXCEPT ![e] = h]
    /\ issued' = <<>>
    /\ outcome' = "returned"
    /\ lastOp' = Op("async_update", e, {})
    /\ UNCHANGED <<pc, connectResult, connectCalls, findCalls,
                   serviceRegistered>>

Next ==
    \/ async_setup_entry
    \/ \E data \in ServiceData : set_room_temp(data)
    \/ \E e \in DeviceIds, attr \in Properties : read_property(e, attr)
    \/ \E e \in DeviceIds, kwargs \in TemperatureKwargs :
          async_set_temperature(e, kwargs)
    \/ \E e \in DeviceIds, mode \in RequestedFanModes :
          async_set_fan_mode(e, mode)
    \/ \E e \in DeviceIds, mode \in RequestedHvacModes :
          async_set_hvac_mode(e, mode)
    \/ \E e \in DeviceIds : async_update(e)

Spec == Init /\ [][Next]_vars

(* ------------------------------ claims -------------------------------- *)

Held == {entities[e] : e \in DOMAIN entities}
Elems(seq) == {seq[i] : i \in 1 .. Len(seq)}
Requested(k) == Get(lastOp.kwargs, k)
Commands ==
    {"async_set_temperature", "async_set_fan_mode", "async_set_hvac_mode"}

\* C1: the target temperature of every held snapshot is the setpoint its
\* mode code selects: '0' comfort, '8' manual, '3' eco, '4' boost, and the
\* frost-protection setpoint for every other or missing code; reading it
\* never raises.
C1_TargetTemperature ==
    /\ \A h \in Held :
        /\ h.gv_mode = {"0"} => target_temperature(h) = h.consigne_confort
        /\ h.gv_mode = {"8"} => target_temperature(h) = h.consigne_manuel
        /\ h.gv_mode = {"3"} => target_temperature(h) = h.consigne_eco
        /\ h.gv_mode = {"4"} => target_temperature(h) = h.consigne_boost
        /\ h.gv_mode \notin {{"0"}, {"8"}, {"3"}, {"4"}}
             => target_temperature(h) = h.consigne_hg
    /\ (lastOp.op = "read" /\ Requested("attr") = "target_temperature")
         => outcome = "returned"

C1_Witness ==
    /\ lastOp.op = "read"
    /\ Requested("attr") = "target_temperature"
    /\ entities[lastOp.entity].gv_mode = None
    /\ target_temperature(entities[lastOp.entity]) = 26

\* C2 as stated: a set-hvac-mode request outside {heat, off} is rejected
\* with an UnsupportedMode error and issues no vendor call.
C2_Original ==
    (lastOp.op = "async_set_hvac_mode"
       /\ Requested("hvac_mode") \notin {"heat", "off"})
      => (outcome = "UnsupportedMode" /\ issued = <<>>)

\* C2 amended: a set-hvac-mode request outside {heat, off} has no effect (no
\* vendor call, held snapshots unchanged) and returns normally, without an
\* error.
C2_UnsupportedModeIgnored ==
    [][ (lastOp'.op = "async_set_hvac_mode"
           /\ Get(lastOp'.kwargs, "hvac_mode") \notin {"heat", "off"})
          => (issued' = <<>> /\ entities' = entities
                /\ outcome' = "returned") ]_vars

C2_Witness ==
    /\ lastOp.op = "async_set_hvac_mode"
    /\ Requested("hvac_mode") = "cool"
    /\ entities[lastOp.entity].power_status = 1
    /\ issued = <<>>
    /\ outcome = "returned"

\* C3: a set-hvac-mode request for heat issues exactly heater_control(own
\* id, power_status=1) and for off power_status=0; a held snapshot derives
\* heat iff its power_status is 1, else off; so a snapshot carrying the
\* power_status a request for m issues derives hvac mode m.
C3_PowerInverse ==
    /\ \A m \in {"heat", "off"} :
         (lastOp.op = "async_set_hvac_mode" /\ Requested("hvac_mode") = m)
           => /\ issued = << [fn |-> "heater_control",
                              target |-> lastOp.entity,
                              kwargs |-> {<<"power_status",
                                            IF m = "heat" THEN 1 ELSE 0>>}] >>
              /\ \A h \in Held :
                   <<"power_status", h.power_status>> \in issued[1].kwargs
                     => hvac_mode(h) = m
    /\ \A h \in Held :
        /\ hvac_mode(h) \in {"heat", "off"}
        /\ hvac_mode(h) = "heat" <=> h.power_status = 1

C3_Witness ==
    /\ lastOp.op = "async_set_hvac_mode"
    /\ Requested("hvac_mode") = "heat"
    /\ entities[lastOp.entity].power_status = 1
    /\ entities[lastOp.entity].is_heating = 0

\* C4: the hvac action of every held snapshot is heating iff the device is
\* generation 1 or its heating signal is 1, and idle otherwise, whatever its
\* power status.
C4_HvacAction ==
    \A h \in Held :
        /\ hvac_action(h) \in {"heating", "idle"}
        /\ hvac_action(h) = "heating" <=> (h.is_gen1 \/ h.is_heating = 1)

C4_Witness ==
    \E h \in Held :
        /\ h.is_gen1 /\ h.is_heating = 0 /\ h.power_status = 0
        /\ hvac_mode(h) = "off" /\ hvac_action(h) = "heating"

\* C5: the fan mode of every held snapshot is "on" iff its fan speed is not
\* 0 (negative speeds included), and is a member of fan_modes, which holds
\* exactly "on" and "off".
C5_FanMode ==
    /\ Elems(fan_modes) = {"on", "off"}
    /\ \A h \in Held :
        /\ fan_mode(h) \in Elems(fan_modes)
        /\ fan_mode(h) = "on" <=> h.fan_speed # 0
        /\ h.fan_speed = 0 => fan_mode(h) = "off"
        /\ h.fan_speed \in {1, -1} => fan_mode(h) = "on"

C5_Witness ==
    /\ lastOp.op = "read"
    /\ Requested("attr") = "fan_mode"
    /\ entities[lastOp.entity].fan_speed = -1

\* n is t (tenths of a degree) cut to whole degrees towards zero.
TruncatedTo(t, n) ==
    /\ t >= 0 => (10 * n <= t /\ t < 10 * n + 10)
    /\ t < 0 => (10 * n >= t /\ t > 10 * n - 10)

\* C6: a set-temperature step returns normally and leaves the held
\* snapshots unchanged; without a temperature it issues no vendor call; with
\* one it issues exactly one set_heater_temp call, for the entity's own
\* device id, carrying the temperature truncated to an integer, so the call
\* is determined by the request alone.
C6_SetTemperature ==
    [][ lastOp'.op = "async_set_temperature"
          => /\ outcome' = "returned"
             /\ entities' = entities
             /\ lastOp'.kwargs = {} => issued' = <<>>
             /\ lastOp'.kwargs # {}
                  => /\ Len(issued') = 1
                     /\ issued'[1].fn = "set_heater_temp"
                     /\ issued'[1].target = lastOp'.entity
                     /\ issued'[1].target
                          = entities[lastOp'.entity].id_device
                     /\ LET n == Get(issued'[1].kwargs, "temperature")
                        IN  /\ issued'[1].kwargs = {<<"temperature", n>>}
                            /\ TruncatedTo(
                                 Get(lastOp'.kwargs, "temperature"), n) ]_vars

C6_Witness ==
    /\ lastOp.op = "async_set_temperature"
    /\ lastOp.kwargs = {<<"temperature", 205>>}
    /\ issued = << [fn |-> "set_heater_temp", target |-> "d2",
                    kwargs |-> {<<"temperature", 20>>}] >>

\* C7: once connect() has failed, setup has raised ConfigEntryNotReady with
\* connect called exactly once, discovery never called, no entity added and
\* the room-temperature service not registered.
C7_ConnectFailure ==
    connectResult = "failed"
      => /\ pc = "not_ready"
         /\ outcome = "ConfigEntryNotReady"
         /\ connectCalls = 1
         /\ findCalls = 0
         /\ DOMAIN entities = {}
         /\ ~serviceRegistered

C7_Witness == connectResult = "failed" /\ lastOp.op = "async_setup_entry"

\* C8: the room label of every held snapshot is its room's name when it has
\* a room and the literal "Independent device" when it has none.
C8_RoomLabel ==
    \A h \in Held :
        /\ h.room = {} => extra_state_attributes(h).room = "Independent device"
        /\ \A r \in h.room : extra_state_attributes(h).room = r.name
        /\ h.room = {[name |-> "Kitchen"]}
             => extra_state_attributes(h).room = "Kitchen"

C8_Witness ==
    /\ lastOp.op = "read"
    /\ Requested("attr") = "extra_state_attributes"
    /\ entities[lastOp.entity].room = None
    /\ outcome = "returned"

\* C9 as stated: every read of a read-only property of an entity returns a
\* value and never raises, whatever snapshot the entity holds.
C9_Original == lastOp.op = "read" => outcome = "returned"

\* C10: the snapshot an entity holds changes only in async_update of that
\* entity, which keeps its device id; set-temperature, set-fan-mode and
\* set-hvac-mode steps leave every held snapshot, and so every derived
\* value, as it was.
C10_HeldSnapshotFrame ==
    [][ /\ lastOp'.op \in Commands
          => /\ entities' = entities
             /\ \A e \in DOMAIN entities :
                  /\ target_temperature(entities'[e])
                       = target_temperature(entities[e])
                  /\ hvac_mode(entities'[e]) = hvac_mode(entities[e])
                  /\ hvac_action(entities'[e]) = hvac_action(entities[e])
                  /\ fan_mode(entities'[e]) = fan_mode(entities[e])
        /\ pc = "ready"
          => /\ DOMAIN entities' = DOMAIN entities
             /\ \A e \in DOMAIN entities :
                  entities'[e] # entities[e]
                    => /\ lastOp'.op = "async_update"
                       /\ lastOp'.entity = e
                       /\ entities'[e].id_device = entities[e].id_device
                       /\ entities'[e] \in update_device(entities[e].id_device)
      ]_vars

C10_Witness ==
    /\ lastOp.op = "async_set_fan_mode"
    /\ Requested("fan_mode") = "on"
    /\ entities[lastOp.entity].fan_speed = 0
    /\ fan_mode(entities[lastOp.entity]) = "off"
    /\ issued = << [fn |-> "heater_control", target |-> lastOp.entity,
                    kwargs |-> {<<"fan_status", 1>>}] >>

====
